---- MODULE Spec2Model ----
(***************************************************************************)
(* The account-mapping orchestrator of akahu_to_budget                      *)
(* (src/akahu_budget_mapping.py, main) as a state machine over repeated     *)
(* runs that share one persisted mapping document.                          *)
(*                                                                          *)
(* main() is modelled from its source.  The functions it imports from       *)
(* modules.account_mapper (load_existing_mapping, merge_and_update_mapping, *)
(* check_for_changes, match_accounts, remove_seq, save_mapping) are not     *)
(* among the source files; they are modelled from sections 4.1-4.4 of the   *)
(* specification.                                                           *)
(*                                                                          *)
(* Data representation                                                      *)
(*   display name     a sequence of character codes, so that str.lower()    *)
(*                    and string comparison are computed                    *)
(*   account record   a function from field names to values; the ordering   *)
(*                    token is the optional field "seq"                     *)
(*   source snapshot  a sequence of records with distinct ids (a Python     *)
(*                    dict in insertion order)                              *)
(*   ledger snapshot  a function from account id to record (its order is    *)
(*                    never used)                                           *)
(*   mapping          a function from source account id to entry; an entry  *)
(*                    is a function from field names to values              *)
(*   disk             the set of persisted documents: {} or {doc}           *)
(***************************************************************************)
EXTENDS Integers, Sequences, FiniteSets, TLC

VARIABLES
    disk,                    \* the persisted mapping document, {} when absent
    runs,                    \* number of runs started so far
    pc,                      \* position of the current run in main()
    SYNC_TO_YNAB,            \* feature flags of the current run
    SYNC_TO_AB,
    latest_actual_accounts,  \* main()'s local variables
    latest_ynab_accounts,
    latest_akahu_accounts,
    existing_akahu_accounts,
    existing_actual_accounts,
    existing_ynab_accounts,
    existing_mapping,
    akahu_accounts,
    actual_accounts,
    ynab_accounts,
    new_mapping,
    accounts_match,          \* the triple returned by check_for_changes
    disk0,                   \* history: the document at the start of the run
    saves,                   \* history: writes of the document in this run
    calls,                   \* history: the match_accounts calls of this run
    prevSkipped,             \* history: pairs skipped by the previous completed run
    failedAt,                \* history: the step at which the run ended in an error
    fpc,                     \* position in get_all_akahu
    query_params,            \* get_all_akahu's local variables
    next_cursor,
    res,
    total_txn,
    akahu_txn_json,
    outcome,                 \* how the call of get_all_akahu ended
    sent,                    \* history: the query parameters of every request
    received                 \* history: the body of every response

vars == <<disk, runs, pc, SYNC_TO_YNAB, SYNC_TO_AB, latest_actual_accounts,
          latest_ynab_accounts, latest_akahu_accounts, existing_akahu_accounts,
          existing_actual_accounts, existing_ynab_accounts, existing_mapping,
          akahu_accounts, actual_accounts, ynab_accounts, new_mapping,
          accounts_match, disk0, saves, calls, prevSkipped, failedAt,
          fpc, query_params, next_cursor, res, total_txn, akahu_txn_json,
          outcome, sent, received>>

\* the state of get_all_akahu, which main() never calls
fetchVars == <<fpc, query_params, next_cursor, res, total_txn, akahu_txn_json,
               outcome, sent, received>>

\* the state of main(), which get_all_akahu never touches
mainVars == <<disk, runs, pc, SYNC_TO_YNAB, SYNC_TO_AB, latest_actual_accounts,
              latest_ynab_accounts, latest_akahu_accounts, existing_akahu_accounts,
              existing_actual_accounts, existing_ynab_accounts, existing_mapping,
              akahu_accounts, actual_accounts, ynab_accounts, new_mapping,
              accounts_match, disk0, saves, calls, prevSkipped, failedAt>>

-----------------------------------------------------------------------------
(* Bounds *)

MaxRuns == 2

\* requests followed within one call of get_all_akahu
MaxPages == 3

-----------------------------------------------------------------------------
(* Generic helpers for dicts *)

EmptyMap == [k \in {} |-> k]

Put(m, k, v) == [x \in (DOMAIN m) \cup {k} |-> IF x = k THEN v ELSE m[x]]

Has(m, k) == k \in DOMAIN m

Range(s) == {s[i] : i \in DOMAIN s}

Ids(accts) == {accts[i].id : i \in DOMAIN accts}

\* the record with id `id` of a source snapshot
Rec(accts, id) == (CHOOSE i \in DOMAIN accts : accts[i].id = id)

AsMap(accts) == [id \in Ids(accts) |-> accts[Rec(accts, id)]]

-----------------------------------------------------------------------------
(* Display names and str.lower() *)

Name_a == <<97>>
Name_B == <<66>>
Name_Y == <<89>>
Name_Z == <<90>>
Name_T == <<84>>

lower_char(c) == IF c >= 65 /\ c <= 90 THEN c + 32 ELSE c

lower(s) == [i \in 1..Len(s) |-> lower_char(s[i])]

RECURSIVE StrLeqFrom(_, _, _)
StrLeqFrom(s, t, i) ==
    IF i > Len(s) THEN TRUE
    ELSE IF i > Len(t) THEN FALSE
    ELSE IF s[i] < t[i] THEN TRUE
    ELSE IF s[i] > t[i] THEN FALSE
    ELSE StrLeqFrom(s, t, i + 1)

\* s <= t for Python strings
StrLeq(s, t) == StrLeqFrom(s, t, 1)

-----------------------------------------------------------------------------
(* Configuration *)

YNAB_BUDGET_ID == "ynab-budget-current"
ACTUAL_SYNC_ID == "actual-budget-current"

Ledgers == {"ynab", "actual"}

AccountIdKey(ledger) == IF ledger = "ynab" THEN "ynab_account_id" ELSE "actual_account_id"
BudgetIdKey(ledger) == IF ledger = "ynab" THEN "ynab_budget_id" ELSE "actual_budget_id"
AccountNameKey(ledger) == IF ledger = "ynab" THEN "ynab_account_name" ELSE "actual_account_name"
DoNotMapKey(ledger) == IF ledger = "ynab" THEN "ynab_do_not_map" ELSE "actual_do_not_map"
ConfiguredBudget(ledger) == IF ledger = "ynab" THEN YNAB_BUDGET_ID ELSE ACTUAL_SYNC_ID

-----------------------------------------------------------------------------
(* What the three providers can return, and the documents a first run can find *)

AkahuIds == {"ak1", "ak2"}
YnabIds == {"y1"}
YnabNames == {Name_Y, Name_Z}
ActualIds == {"t1"}

\* the display names the source provider may report for an account
AkahuNames(id) == IF id = "ak1" THEN {Name_a, Name_B} ELSE {Name_a}

AccountRecord(id, name, balance, type) ==
    [id |-> id, name |-> name, balance |-> balance, type |-> type]

\* a record as fetched, carrying the provider's ordering token
WithToken(r, tok) == ("seq" :> tok) @@ r

AkahuRecord(id, name) == AccountRecord(id, name, 100, "CHECKING")

\* the source provider and YNAB attach the token of the fetch to every record;
\* the token changes from one fetch to the next also when the data does not
AkahuSnaps(tok) ==
    {<<>>}
    \cup UNION {{<<WithToken(AkahuRecord(id, n), tok)>> : n \in AkahuNames(id)} : id \in AkahuIds}
    \cup {<<WithToken(AkahuRecord("ak1", n1), tok), WithToken(AkahuRecord("ak2", n2), tok)>> :
             n1 \in AkahuNames("ak1"), n2 \in AkahuNames("ak2")}

YnabSnaps(tok) ==
    {EmptyMap} \cup
    {[id \in {y} |-> WithToken(AccountRecord(id, n, 0, "checking"), tok)] :
        y \in YnabIds, n \in YnabNames}

ActualSnaps ==
    {EmptyMap} \cup
    {[id \in {t} |-> AccountRecord(id, Name_T, 0, "bank")] : t \in ActualIds}

Document(ak, ac, yn, m) ==
    [akahu_accounts |-> ak, actual_accounts |-> ac, ynab_accounts |-> yn, mapping |-> m]

\* Documents written by earlier versions of the program: entries may carry an
\* account id without a budget id, or the id of another budget.
LegacyEntry1 ==
    [akahu_id |-> "ak1", akahu_name |-> Name_B,
     ynab_account_id |-> "y1", ynab_account_name |-> Name_Y,
     actual_account_id |-> "t1", actual_account_name |-> Name_T,
     actual_budget_id |-> "actual-budget-old"]

LegacyEntry2 ==
    [akahu_id |-> "ak1", akahu_name |-> Name_B,
     ynab_account_id |-> "y1", ynab_account_name |-> Name_Y,
     ynab_budget_id |-> "ynab-budget-old",
     actual_account_id |-> "t1", actual_account_name |-> Name_T]

LegacyDoc(e) ==
    Document(<<AkahuRecord("ak2", Name_a), AkahuRecord("ak1", Name_B)>>,
             [id \in {"t1"} |-> AccountRecord(id, Name_T, 0, "bank")],
             [id \in {"y1"} |-> AccountRecord(id, Name_Y, 0, "checking")],
             [k \in {"ak1"} |-> e])

InitialDisks == {{}, {LegacyDoc(LegacyEntry1)}, {LegacyDoc(LegacyEntry2)}}

-----------------------------------------------------------------------------
(* Mapping Store (modules.account_mapper, modelled from spec section 4.1) *)

StubDocument == Document(<<>>, EmptyMap, EmptyMap, EmptyMap)

\* load_existing_mapping(generate_stub=True): an absent document loads as an
\* empty stub
load_existing_mapping(d) == IF d = {} THEN StubDocument ELSE CHOOSE doc \in d : TRUE

StripRecord(r) == [f \in (DOMAIN r) \ {"seq"} |-> r[f]]

StripAll(m) == [k \in DOMAIN m |-> StripRecord(m[k])]

\* remove_seq: the document without the ordering token in any record
remove_seq(doc) ==
    Document(StripAll(doc.akahu_accounts), StripAll(doc.actual_accounts),
             StripAll(doc.ynab_accounts), StripAll(doc.mapping))

\* save_mapping: one whole-document replace
save_mapping(doc) == {doc}

-----------------------------------------------------------------------------
(* Change Detector (modelled from spec section 4.2) *)

\* two snapshots differ when the id sets differ or some record differs in a
\* field other than the ordering token
changed(prev, new) == StripAll(prev) # StripAll(new)

\* the triple main() unpacks as (akahu_accounts_match, actual_accounts_match,
\* ynab_accounts_match)
check_for_changes(prev_akahu, new_akahu, prev_actual, new_actual, prev_ynab, new_ynab) ==
    << ~changed(AsMap(prev_akahu), AsMap(new_akahu)),
       ~changed(prev_actual, new_actual),
       ~changed(prev_ynab, new_ynab) >>

-----------------------------------------------------------------------------
(* Mapping Merger (modelled from spec section 4.3) *)

\* step 4 for the source provider: refresh the cached name and balance
RefreshSource(e, k, new_akahu, prev_akahu) ==
    IF k \in Ids(prev_akahu) \cap Ids(new_akahu)
    THEN ("akahu_name" :> AsMap(new_akahu)[k].name)
         @@ ("akahu_balance" :> AsMap(new_akahu)[k].balance) @@ e
    ELSE e

\* step 4 for a ledger: refresh the cached name of the linked account
RefreshTarget(e, ledger, new_target, prev_target) ==
    IF /\ Has(e, AccountIdKey(ledger))
       /\ e[AccountIdKey(ledger)] \in (DOMAIN prev_target) \cap (DOMAIN new_target)
    THEN (AccountNameKey(ledger) :> new_target[e[AccountIdKey(ledger)]].name) @@ e
    ELSE e

\* entries are only refreshed, never added or removed; the account
\* dictionaries returned are the new snapshots
merge_and_update_mapping(m, new_akahu, new_actual, new_ynab, prev_akahu, prev_actual, prev_ynab) ==
    [mapping |->
        [k \in DOMAIN m |->
            RefreshTarget(
                RefreshTarget(RefreshSource(m[k], k, new_akahu, prev_akahu),
                              "actual", new_actual, prev_actual),
                "ynab", new_ynab, prev_ynab)],
     akahu_accounts |-> new_akahu,
     actual_accounts |-> new_actual,
     ynab_accounts |-> new_ynab]

-----------------------------------------------------------------------------
(* Matcher (modelled from spec section 4.4) *)

HasLink(m, id, ledger) == Has(m, id) /\ Has(m[id], AccountIdKey(ledger))

\* the entry of a source account, created on first use
EntryOf(m, acct) ==
    IF Has(m, acct.id) THEN m[acct.id] ELSE [akahu_id |-> acct.id, akahu_name |-> acct.name]

\* a decision is "skip", "never" or the id of the confirmed target account;
\* "never" marks the entry as permanently unmatched and writes no link
Decide(m, acct, targets, ledger, decision) ==
    IF decision = "skip" THEN m
    ELSE IF decision = "never"
    THEN Put(m, acct.id, (DoNotMapKey(ledger) :> TRUE) @@ EntryOf(m, acct))
    ELSE Put(m, acct.id,
             (AccountIdKey(ledger) :> decision)
             @@ (BudgetIdKey(ledger) :> ConfiguredBudget(ledger))
             @@ (AccountNameKey(ledger) :> targets[decision].name)
             @@ ("akahu_name" :> acct.name)
             @@ EntryOf(m, acct))

\* the updated mapping, and the source accounts a question was asked for in
\* presentation order
RECURSIVE match_accounts(_, _, _, _, _)
match_accounts(m, accts, targets, ledger, answers) ==
    IF accts = <<>> THEN [mapping |-> m, asked |-> <<>>]
    ELSE IF HasLink(m, Head(accts).id, ledger)
         THEN match_accounts(m, Tail(accts), targets, ledger, answers)
         ELSE LET rest == match_accounts(
                              Decide(m, Head(accts), targets, ledger, answers[Head(accts).id]),
                              Tail(accts), targets, ledger, answers)
              IN  [mapping |-> rest.mapping, asked |-> <<Head(accts).id>> \o rest.asked]

\* what the confirmation boundary can answer for one question
Decisions(targets) == {"skip", "never"} \cup DOMAIN targets

-----------------------------------------------------------------------------
(* get_all_akahu, src/modules/transaction_handler.py                        *)
(*                                                                          *)
(*   JSON value       null, a string or an object, tagged with its kind     *)
(*   response body    a function from the keys present ("items", "cursor")  *)
(*                    to their values; "items" is a sequence of             *)
(*                    transactions                                          *)
(*   DataFrame        its rows in order                                     *)
(*   timestamp        whole days since 1970-01-01                           *)

Null == [kind |-> "null"]

Str(s) == [kind |-> "string", value |-> s]

Obj(fields) == [kind |-> "object", fields |-> fields]

Frame(rows) == [kind |-> "frame", rows |-> rows]

\* line 24: the value next_cursor holds before the first request
FirstTime == Str("first time")

\* line 22: "2024-01-01T00:00:00Z"
DefaultStart == 19723

\* the values of the argument last_reconciled_at
LastReconciled == {Null, [kind |-> "timestamp", day |-> 19800]}

\* lines 13-22: the query parameters of the first request
InitialQueryParams(last_reconciled_at) ==
    IF last_reconciled_at # Null
    THEN "start" :> (last_reconciled_at.day - 7)
    ELSE "start" :> DefaultStart

Transactions == {"t1", "t2"}

\* the pages a response can carry
ItemLists == {<<>>, <<"t1">>, <<"t2">>, <<"t1", "t2">>}

\* the cursors the provider can hand out: any string
CursorStrings == {"c1", "c2", "first time"}

\* the "cursor" member of a body: null, an object without "next", or an
\* object whose "next" is null or a string
CursorValues ==
    {Null, Obj(EmptyMap), Obj("next" :> Null)}
    \cup {Obj("next" :> Str(c)) : c \in CursorStrings}

\* the bodies of a successful response: either key may be missing
Responses ==
    {EmptyMap}
    \cup {"items" :> items : items \in ItemLists}
    \cup {"cursor" :> cur : cur \in CursorValues}
    \cup {("items" :> items) @@ ("cursor" :> cur) : items \in ItemLists, cur \in CursorValues}

\* line 41: pd.DataFrame(akahu_txn_json.get('items', []))
DataFrame(json) == IF Has(json, "items") THEN json["items"] ELSE <<>>

\* lines 42-45: res after the page is added
Assembled(prev, akahu_txn) ==
    IF prev = Null THEN Frame(akahu_txn) ELSE Frame(prev.rows \o akahu_txn)

\* lines 26-27: the parameters of the request about to be sent
WithCursor(params, cursor) ==
    IF cursor # FirstTime THEN Put(params, "cursor", cursor.value) ELSE params

\* line 51, evaluated left to right: "stop", "continue", or "TypeError" when
\* the membership test is applied to a null cursor
LoopTest(json, num_txn) ==
    IF num_txn = 0 \/ ~Has(json, "cursor") THEN "stop"
    ELSE IF json["cursor"] = Null THEN "TypeError"
    ELSE IF ~Has(json["cursor"].fields, "next") THEN "stop"
    ELSE "continue"

NoOutcome == [kind |-> "none"]

\* the state outside a call of get_all_akahu
FetchIdle ==
    /\ fpc = "idle"
    /\ query_params = EmptyMap
    /\ next_cursor = Null
    /\ res = Null
    /\ total_txn = 0
    /\ akahu_txn_json = EmptyMap
    /\ outcome = NoOutcome
    /\ sent = <<>>
    /\ received = <<>>

\* lines 25-35 and 40: the loop is entered, the request is sent and a
\* response with a JSON body arrives
Request ==
    /\ fpc = "loop"
    /\ next_cursor # Null
    /\ Len(sent) < MaxPages
    /\ query_params' = WithCursor(query_params, next_cursor)
    /\ sent' = Append(sent, query_params')
    /\ \E body \in Responses :
          /\ akahu_txn_json' = body
          /\ received' = Append(received, body)
    /\ fpc' = "assemble"
    /\ UNCHANGED <<next_cursor, res, total_txn, outcome>>
    /\ UNCHANGED mainVars

\* lines 25-38: the request fails (no connection, an error status) and the
\* handler raises RuntimeError
RequestFails ==
    /\ fpc = "loop"
    /\ next_cursor # Null
    /\ Len(sent) < MaxPages
    /\ query_params' = WithCursor(query_params, next_cursor)
    /\ sent' = Append(sent, query_params')
    /\ outcome' = [kind |-> "raise", error |-> "RuntimeError"]
    /\ fpc' = "raised"
    /\ UNCHANGED <<next_cursor, res, total_txn, akahu_txn_json, received>>
    /\ UNCHANGED mainVars

\* lines 41-54: the page is added to res and the next cursor is chosen
Assemble ==
    /\ fpc = "assemble"
    /\ LET akahu_txn == DataFrame(akahu_txn_json)
           num_txn == Len(akahu_txn)
           test == LoopTest(akahu_txn_json, num_txn)
       IN  /\ res' = Assembled(res, akahu_txn)
           /\ total_txn' = total_txn + num_txn
           /\ IF test = "TypeError"
              THEN /\ outcome' = [kind |-> "raise", error |-> "TypeError"]
                   /\ fpc' = "raised"
                   /\ UNCHANGED next_cursor
              ELSE /\ next_cursor' = IF test = "stop" THEN Null
                                     ELSE akahu_txn_json["cursor"].fields["next"]
                   /\ fpc' = "loop"
                   /\ UNCHANGED outcome
    /\ UNCHANGED <<query_params, akahu_txn_json, sent, received>>
    /\ UNCHANGED mainVars

\* lines 25 and 56-57: the loop ends and res is returned
Return ==
    /\ fpc = "loop"
    /\ next_cursor = Null
    /\ outcome' = [kind |-> "return", value |-> res]
    /\ fpc' = "returned"
    /\ UNCHANGED <<query_params, next_cursor, res, total_txn, akahu_txn_json,
                   sent, received>>
    /\ UNCHANGED mainVars

-----------------------------------------------------------------------------
(* main(), src/akahu_budget_mapping.py *)

Running == {"fetch_actual", "fetch_ynab", "load", "fetch_akahu", "merge", "sort",
            "check", "match_ynab", "match_actual", "save"}

\* the process has no state before main() assigns it
ClearedLocals ==
    /\ latest_actual_accounts' = EmptyMap
    /\ latest_ynab_accounts' = EmptyMap
    /\ latest_akahu_accounts' = <<>>
    /\ existing_akahu_accounts' = <<>>
    /\ existing_actual_accounts' = EmptyMap
    /\ existing_ynab_accounts' = EmptyMap
    /\ existing_mapping' = EmptyMap
    /\ akahu_accounts' = <<>>
    /\ actual_accounts' = EmptyMap
    /\ ynab_accounts' = EmptyMap
    /\ new_mapping' = EmptyMap
    /\ accounts_match' = <<FALSE, FALSE, FALSE>>

\* the pairs (source account, ledger) answered "skip" in the calls cs
SkippedPairs(cs) ==
    {<<id, cs[i].ledger>> : i \in DOMAIN cs, id \in AkahuIds} \cap
    {p \in AkahuIds \X Ledgers :
        \E i \in DOMAIN cs : /\ cs[i].ledger = p[2]
                             /\ p[1] \in DOMAIN cs[i].answers
                             /\ cs[i].answers[p[1]] = "skip"}

\* the pairs a question was asked for in the calls cs
AskedPairs(cs) ==
    {p \in AkahuIds \X Ledgers :
        \E i \in DOMAIN cs : cs[i].ledger = p[2] /\ p[1] \in Range(cs[i].asked)}

\* the configuration checks at import (lines 55-74): a run starts only when one
\* ledger is enabled and every required variable is set
ConfigurationValid(sy, sa, envs_present) == (sy \/ sa) /\ envs_present

StartRun ==
    /\ pc \in {"idle", "done", "failed"}
    /\ runs < MaxRuns
    /\ \E sy \in BOOLEAN, sa \in BOOLEAN :
          /\ ConfigurationValid(sy, sa, TRUE)
          /\ SYNC_TO_YNAB' = sy
          /\ SYNC_TO_AB' = sa
    /\ runs' = runs + 1
    /\ pc' = "fetch_actual"
    /\ ClearedLocals
    /\ disk0' = disk
    /\ saves' = 0
    /\ calls' = <<>>
    /\ prevSkipped' = IF pc = "done" THEN SkippedPairs(calls) ELSE {}
    /\ failedAt' = "none"
    /\ UNCHANGED disk
    /\ UNCHANGED fetchVars

\* EnvironmentError at import: main() is never entered
ConfigMissing ==
    /\ pc \in {"idle", "done", "failed"}
    /\ runs < MaxRuns
    /\ \E sy \in BOOLEAN, sa \in BOOLEAN, envs_present \in BOOLEAN :
          /\ ~ConfigurationValid(sy, sa, envs_present)
          /\ SYNC_TO_YNAB' = sy
          /\ SYNC_TO_AB' = sa
    /\ runs' = runs + 1
    /\ pc' = "failed"
    /\ ClearedLocals
    /\ disk0' = disk
    /\ saves' = 0
    /\ calls' = <<>>
    /\ prevSkipped' = {}
    /\ failedAt' = "import"
    /\ UNCHANGED disk
    /\ UNCHANGED fetchVars

\* lines 82-93
FetchActual ==
    /\ pc = "fetch_actual"
    /\ IF SYNC_TO_AB
       THEN \E snap \in ActualSnaps : latest_actual_accounts' = snap
       ELSE UNCHANGED latest_actual_accounts
    /\ pc' = "fetch_ynab"
    /\ UNCHANGED <<disk, runs, SYNC_TO_YNAB, SYNC_TO_AB, latest_ynab_accounts,
                   latest_akahu_accounts, existing_akahu_accounts,
                   existing_actual_accounts, existing_ynab_accounts, existing_mapping,
                   akahu_accounts, actual_accounts, ynab_accounts, new_mapping,
                   accounts_match, disk0, saves, calls, prevSkipped, failedAt>>
    /\ UNCHANGED fetchVars

\* lines 95-99
FetchYnab ==
    /\ pc = "fetch_ynab"
    /\ IF SYNC_TO_YNAB
       THEN \E snap \in YnabSnaps(runs) : latest_ynab_accounts' = snap
       ELSE UNCHANGED latest_ynab_accounts
    /\ pc' = "load"
    /\ UNCHANGED <<disk, runs, SYNC_TO_YNAB, SYNC_TO_AB, latest_actual_accounts,
                   latest_akahu_accounts, existing_akahu_accounts,
                   existing_actual_accounts, existing_ynab_accounts, existing_mapping,
                   akahu_accounts, actual_accounts, ynab_accounts, new_mapping,
                   accounts_match, disk0, saves, calls, prevSkipped, failedAt>>
    /\ UNCHANGED fetchVars

\* lines 109-110 without the test for an existing budget id
BackfillActualAlways(e) ==
    IF Has(e, "actual_account_id")
    THEN ("actual_budget_id" :> ACTUAL_SYNC_ID) @@ e
    ELSE e

\* lines 107-108, for one entry
BackfillYnab(e) ==
    IF Has(e, "ynab_account_id") /\ ~Has(e, "ynab_budget_id")
    THEN ("ynab_budget_id" :> YNAB_BUDGET_ID) @@ e
    ELSE e

\* lines 109-110, for one entry
BackfillActual(e) ==
    IF Has(e, "actual_account_id") /\ ~Has(e, "actual_budget_id")
    THEN ("actual_budget_id" :> ACTUAL_SYNC_ID) @@ e
    ELSE e

\* lines 106-110
RetrofitBudgetIds(m) == [k \in DOMAIN m |-> BackfillActual(BackfillYnab(m[k]))]

\* lines 101-110
LoadAndRetrofit ==
    /\ pc = "load"
    /\ LET doc == load_existing_mapping(disk) IN
          /\ existing_akahu_accounts' = doc.akahu_accounts
          /\ existing_actual_accounts' = doc.actual_accounts
          /\ existing_ynab_accounts' = doc.ynab_accounts
          /\ existing_mapping' = RetrofitBudgetIds(doc.mapping)
    /\ pc' = "fetch_akahu"
    /\ UNCHANGED <<disk, runs, SYNC_TO_YNAB, SYNC_TO_AB, latest_actual_accounts,
                   latest_ynab_accounts, latest_akahu_accounts,
                   akahu_accounts, actual_accounts, ynab_accounts, new_mapping,
                   accounts_match, disk0, saves, calls, prevSkipped, failedAt>>
    /\ UNCHANGED fetchVars

\* line 113
FetchAkahu ==
    /\ pc = "fetch_akahu"
    /\ \E snap \in AkahuSnaps(runs) : latest_akahu_accounts' = snap
    /\ pc' = "merge"
    /\ UNCHANGED <<disk, runs, SYNC_TO_YNAB, SYNC_TO_AB, latest_actual_accounts,
                   latest_ynab_accounts, existing_akahu_accounts,
                   existing_actual_accounts, existing_ynab_accounts, existing_mapping,
                   akahu_accounts, actual_accounts, ynab_accounts, new_mapping,
                   accounts_match, disk0, saves, calls, prevSkipped, failedAt>>
    /\ UNCHANGED fetchVars

\* the call of lines 116-124 with the arguments in the wrong order
MergeCallSwapped ==
    merge_and_update_mapping(existing_mapping,
                             existing_akahu_accounts, existing_actual_accounts,
                             existing_ynab_accounts,
                             latest_akahu_accounts, latest_actual_accounts,
                             latest_ynab_accounts)

\* the call of lines 116-124
MergeCall ==
    merge_and_update_mapping(existing_mapping,
                             latest_akahu_accounts, latest_actual_accounts,
                             latest_ynab_accounts,
                             existing_akahu_accounts, existing_actual_accounts,
                             existing_ynab_accounts)

\* lines 115-124
Merge ==
    /\ pc = "merge"
    /\ existing_mapping' = MergeCall.mapping
    /\ akahu_accounts' = MergeCall.akahu_accounts
    /\ actual_accounts' = MergeCall.actual_accounts
    /\ ynab_accounts' = MergeCall.ynab_accounts
    /\ pc' = "sort"
    /\ UNCHANGED <<disk, runs, SYNC_TO_YNAB, SYNC_TO_AB, latest_actual_accounts,
                   latest_ynab_accounts, latest_akahu_accounts, existing_akahu_accounts,
                   existing_actual_accounts, existing_ynab_accounts, new_mapping,
                   accounts_match, disk0, saves, calls, prevSkipped, failedAt>>
    /\ UNCHANGED fetchVars

\* line 128 without .lower()
SortKeyCaseSensitive(acct) == acct.name

\* line 128: key=lambda x: x[1]['name'].lower()
SortKey(acct) == lower(acct.name)

\* sorted() is stable: x goes after every element whose key is not greater
RECURSIVE InsertSorted(_, _)
InsertSorted(x, s) ==
    IF s = <<>> THEN <<x>>
    ELSE IF StrLeq(SortKey(Head(s)), SortKey(x))
         THEN <<Head(s)>> \o InsertSorted(x, Tail(s))
         ELSE <<x>> \o s

RECURSIVE sorted(_)
sorted(accts) ==
    IF accts = <<>> THEN <<>>
    ELSE InsertSorted(accts[Len(accts)], sorted(SubSeq(accts, 1, Len(accts) - 1)))

\* line 131 starting from an empty dict
CopyMappingEmpty(m) == EmptyMap

\* line 131: new_mapping = existing_mapping.copy()
CopyMapping(m) == m

\* lines 126-131
SortAndCopy ==
    /\ pc = "sort"
    /\ akahu_accounts' = sorted(akahu_accounts)
    /\ new_mapping' = CopyMapping(existing_mapping)
    /\ pc' = "check"
    /\ UNCHANGED <<disk, runs, SYNC_TO_YNAB, SYNC_TO_AB, latest_actual_accounts,
                   latest_ynab_accounts, latest_akahu_accounts, existing_akahu_accounts,
                   existing_actual_accounts, existing_ynab_accounts, existing_mapping,
                   actual_accounts, ynab_accounts,
                   accounts_match, disk0, saves, calls, prevSkipped, failedAt>>
    /\ UNCHANGED fetchVars

\* the call of lines 134-141 with the two ledgers' new snapshots crossed
CheckCallCrossed ==
    check_for_changes(existing_akahu_accounts, latest_akahu_accounts,
                      existing_actual_accounts, latest_ynab_accounts,
                      existing_ynab_accounts, latest_actual_accounts)

\* the call of lines 134-141
CheckCall ==
    check_for_changes(existing_akahu_accounts, latest_akahu_accounts,
                      existing_actual_accounts, latest_actual_accounts,
                      existing_ynab_accounts, latest_ynab_accounts)

\* line 144 with `or` for `and`
NoChangesDetectedAny(flags) == flags[1] \/ flags[2] \/ flags[3]

\* line 144: akahu_accounts_match and actual_accounts_match and ynab_accounts_match
NoChangesDetected(flags) == flags[1] /\ flags[2] /\ flags[3]

\* lines 133-146
CheckChanges ==
    /\ pc = "check"
    /\ accounts_match' = CheckCall
    /\ pc' = IF NoChangesDetected(CheckCall) THEN "save" ELSE "match_ynab"
    /\ UNCHANGED <<disk, runs, SYNC_TO_YNAB, SYNC_TO_AB, latest_actual_accounts,
                   latest_ynab_accounts, latest_akahu_accounts, existing_akahu_accounts,
                   existing_actual_accounts, existing_ynab_accounts, existing_mapping,
                   akahu_accounts, actual_accounts, ynab_accounts, new_mapping,
                   disk0, saves, calls, prevSkipped, failedAt>>
    /\ UNCHANGED fetchVars

\* lines 156-161
data_to_save == Document(akahu_accounts, actual_accounts, ynab_accounts, new_mapping)

\* line 164 given data_to_save
SavedWithSeq == data_to_save

\* line 163
data_without_seq == remove_seq(data_to_save)

\* main() saving after each match_accounts call as well
PersistedAfterEachMatch(step) ==
    IF step \in {"match_ynab", "match_actual", "save"}
    THEN save_mapping(data_without_seq)
    ELSE disk

\* the document on disk after a step of main(): save_mapping is called once,
\* at line 164, and nowhere else
PersistedAfter(step) == IF step = "save" THEN save_mapping(data_without_seq) ELSE disk

\* line 149
MatchYnabCall(answers) ==
    match_accounts(new_mapping, akahu_accounts, ynab_accounts, "ynab", answers)

\* line 153 with the ledger name of line 149
MatchActualCallAsYnab(answers) ==
    match_accounts(new_mapping, akahu_accounts, actual_accounts, "ynab", answers)

\* line 153
MatchActualCall(answers) ==
    match_accounts(new_mapping, akahu_accounts, actual_accounts, "actual", answers)

\* the record of one call in the history: the questions it asked and the
\* answers it was given
CallRecord(ledger, result, answers) ==
    [ledger |-> ledger,
     before |-> new_mapping,
     asked |-> result.asked,
     answers |-> [id \in Range(result.asked) |-> answers[id]]]

\* line 149 without the test of line 148
MatchYnabUnconditional == TRUE

\* line 148: if SYNC_TO_YNAB
MatchYnabEnabled == SYNC_TO_YNAB

\* lines 147-149
MatchYnab ==
    /\ pc = "match_ynab"
    /\ IF MatchYnabEnabled
       THEN \E answers \in [Ids(akahu_accounts) -> Decisions(ynab_accounts)] :
               /\ new_mapping' = MatchYnabCall(answers).mapping
               /\ calls' = Append(calls, CallRecord("ynab", MatchYnabCall(answers), answers))
       ELSE UNCHANGED <<new_mapping, calls>>
    /\ pc' = "match_actual"
    /\ disk' = PersistedAfter(pc)
    /\ UNCHANGED <<runs, SYNC_TO_YNAB, SYNC_TO_AB, latest_actual_accounts,
                   latest_ynab_accounts, latest_akahu_accounts, existing_akahu_accounts,
                   existing_actual_accounts, existing_ynab_accounts, existing_mapping,
                   akahu_accounts, actual_accounts, ynab_accounts,
                   accounts_match, disk0, saves, prevSkipped, failedAt>>
    /\ UNCHANGED fetchVars

\* lines 151-153
MatchActual ==
    /\ pc = "match_actual"
    /\ IF SYNC_TO_AB
       THEN \E answers \in [Ids(akahu_accounts) -> Decisions(actual_accounts)] :
               /\ new_mapping' = MatchActualCall(answers).mapping
               /\ calls' = Append(calls, CallRecord("actual", MatchActualCall(answers), answers))
       ELSE UNCHANGED <<new_mapping, calls>>
    /\ pc' = "save"
    /\ disk' = PersistedAfter(pc)
    /\ UNCHANGED <<runs, SYNC_TO_YNAB, SYNC_TO_AB, latest_actual_accounts,
                   latest_ynab_accounts, latest_akahu_accounts, existing_akahu_accounts,
                   existing_actual_accounts, existing_ynab_accounts, existing_mapping,
                   akahu_accounts, actual_accounts, ynab_accounts,
                   accounts_match, disk0, saves, prevSkipped, failedAt>>
    /\ UNCHANGED fetchVars

\* lines 155-164
Save ==
    /\ pc = "save"
    /\ disk' = PersistedAfter("save")
    /\ saves' = saves + 1
    /\ pc' = "done"
    /\ UNCHANGED <<runs, SYNC_TO_YNAB, SYNC_TO_AB, latest_actual_accounts,
                   latest_ynab_accounts, latest_akahu_accounts, existing_akahu_accounts,
                   existing_actual_accounts, existing_ynab_accounts, existing_mapping,
                   akahu_accounts, actual_accounts, ynab_accounts, new_mapping,
                   accounts_match, disk0, calls, prevSkipped, failedAt>>
    /\ UNCHANGED fetchVars

\* an exception raised by any step (a failed fetch, an unreadable document, an
\* error in merge or match, a failed write) or an interrupt: nothing in main()
\* catches it, so the process ends
Abort ==
    /\ pc \in Running
    /\ pc' = "failed"
    /\ ClearedLocals
    /\ calls' = <<>>
    /\ failedAt' = pc
    /\ UNCHANGED <<disk, runs, SYNC_TO_YNAB, SYNC_TO_AB, disk0, saves, prevSkipped>>
    /\ UNCHANGED fetchVars

Init ==
    /\ disk \in InitialDisks
    /\ runs = 0
    /\ pc = "idle"
    /\ SYNC_TO_YNAB = FALSE
    /\ SYNC_TO_AB = FALSE
    /\ latest_actual_accounts = EmptyMap
    /\ latest_ynab_accounts = EmptyMap
    /\ latest_akahu_accounts = <<>>
    /\ existing_akahu_accounts = <<>>
    /\ existing_actual_accounts = EmptyMap
    /\ existing_ynab_accounts = EmptyMap
    /\ existing_mapping = EmptyMap
    /\ akahu_accounts = <<>>
    /\ actual_accounts = EmptyMap
    /\ ynab_accounts = EmptyMap
    /\ new_mapping = EmptyMap
    /\ accounts_match = <<FALSE, FALSE, FALSE>>
    /\ disk0 = disk
    /\ saves = 0
    /\ calls = <<>>
    /\ prevSkipped = {}
    /\ failedAt = "none"
    /\ FetchIdle

Next ==
    \/ StartRun
    \/ ConfigMissing
    \/ FetchActual
    \/ FetchYnab
    \/ LoadAndRetrofit
    \/ FetchAkahu
    \/ Merge
    \/ SortAndCopy
    \/ CheckChanges
    \/ MatchYnab
    \/ MatchActual
    \/ Save
    \/ Abort

Spec == Init /\ [][Next]_vars

-----------------------------------------------------------------------------
(* The change detector on arbitrary pairs of snapshots: every provider is    *)
(* given a previous and a new snapshot and main()'s comparison step runs.    *)

ChangeRecords(id) ==
    IF id = "x1"
    THEN { AccountRecord(id, Name_a, 0, "bank"),
           AccountRecord(id, Name_B, 0, "bank"),
           AccountRecord(id, Name_a, 100, "bank"),
           AccountRecord(id, Name_a, 0, "card"),
           WithToken(AccountRecord(id, Name_a, 0, "bank"), 1),
           WithToken(AccountRecord(id, Name_a, 0, "bank"), 2),
           WithToken(AccountRecord(id, Name_B, 0, "bank"), 1) }
    ELSE { AccountRecord(id, Name_T, 0, "bank"),
           WithToken(AccountRecord(id, Name_T, 0, "bank"), 1) }

ChangeSnaps ==
    {<<>>}
    \cup {<<r>> : r \in ChangeRecords("x1") \cup ChangeRecords("x2")}
    \cup {<<r1, r2>> : r1 \in ChangeRecords("x1"), r2 \in ChangeRecords("x2")}

Providers == {"akahu", "actual", "ynab"}

InitChange ==
    /\ disk = {}
    /\ runs = 1
    /\ pc = "check"
    /\ SYNC_TO_YNAB = TRUE
    /\ SYNC_TO_AB = TRUE
    /\ \E p \in Providers, prev \in ChangeSnaps, new \in ChangeSnaps :
          /\ existing_akahu_accounts = prev
          /\ latest_akahu_accounts = IF p = "akahu" THEN new ELSE prev
          /\ existing_actual_accounts = AsMap(prev)
          /\ latest_actual_accounts = AsMap(IF p = "actual" THEN new ELSE prev)
          /\ existing_ynab_accounts = AsMap(prev)
          /\ latest_ynab_accounts = AsMap(IF p = "ynab" THEN new ELSE prev)
    /\ existing_mapping = EmptyMap
    /\ akahu_accounts = sorted(latest_akahu_accounts)
    /\ actual_accounts = latest_actual_accounts
    /\ ynab_accounts = latest_ynab_accounts
    /\ new_mapping = EmptyMap
    /\ accounts_match = <<FALSE, FALSE, FALSE>>
    /\ disk0 = disk
    /\ saves = 0
    /\ calls = <<>>
    /\ prevSkipped = {}
    /\ failedAt = "none"
    /\ FetchIdle

NextChange == CheckChanges

SpecChange == InitChange /\ [][NextChange]_vars

-----------------------------------------------------------------------------
(* One call of get_all_akahu against a provider that answers every request  *)
(* with any body or with a failure.                                         *)

InitFetch ==
    /\ disk = {}
    /\ runs = 0
    /\ pc = "idle"
    /\ SYNC_TO_YNAB = FALSE
    /\ SYNC_TO_AB = FALSE
    /\ latest_actual_accounts = EmptyMap
    /\ latest_ynab_accounts = EmptyMap
    /\ latest_akahu_accounts = <<>>
    /\ existing_akahu_accounts = <<>>
    /\ existing_actual_accounts = EmptyMap
    /\ existing_ynab_accounts = EmptyMap
    /\ existing_mapping = EmptyMap
    /\ akahu_accounts = <<>>
    /\ actual_accounts = EmptyMap
    /\ ynab_accounts = EmptyMap
    /\ new_mapping = EmptyMap
    /\ accounts_match = <<FALSE, FALSE, FALSE>>
    /\ disk0 = disk
    /\ saves = 0
    /\ calls = <<>>
    /\ prevSkipped = {}
    /\ failedAt = "none"
    /\ fpc = "loop"
    /\ \E last_reconciled_at \in LastReconciled :
          query_params = InitialQueryParams(last_reconciled_at)
    /\ next_cursor = FirstTime
    /\ res = Null
    /\ total_txn = 0
    /\ akahu_txn_json = EmptyMap
    /\ outcome = NoOutcome
    /\ sent = <<>>
    /\ received = <<>>

NextFetch ==
    \/ Request
    \/ RequestFails
    \/ Assemble
    \/ Return

SpecFetch == InitFetch /\ [][NextFetch]_vars

-----------------------------------------------------------------------------
(* Vocabulary of the properties *)

AfterLoad == {"fetch_akahu", "merge", "sort", "check", "match_ynab", "match_actual",
              "save", "done"}

AfterSort == {"check", "match_ynab", "match_actual", "save", "done"}

\* the mapping main() holds: existing_mapping up to line 131, new_mapping after
CurrentMapping == IF pc \in AfterSort THEN new_mapping ELSE existing_mapping

\* the mapping the run loaded
LoadedMapping == load_existing_mapping(disk0).mapping

Enabled(ledger) == IF ledger = "ynab" THEN SYNC_TO_YNAB ELSE SYNC_TO_AB

\* the mapping after the i-th match_accounts call of the run
MappingAfterCall(i) == IF i < Len(calls) THEN calls[i + 1].before ELSE new_mapping

\* a provider's snapshots differ in id membership or in name, balance or type
\* of a shared id
Differ(prev, new) ==
    \/ DOMAIN prev # DOMAIN new
    \/ \E id \in (DOMAIN prev) \cap (DOMAIN new) :
          \/ prev[id].name # new[id].name
          \/ prev[id].balance # new[id].balance
          \/ prev[id].type # new[id].type

AnyProviderChanged ==
    \/ Differ(AsMap(existing_akahu_accounts), AsMap(latest_akahu_accounts))
    \/ Differ(existing_actual_accounts, latest_actual_accounts)
    \/ Differ(existing_ynab_accounts, latest_ynab_accounts)

\* the source accounts presented to the matcher that have no link for a ledger
LackingLink(m, ledger) == {id \in Ids(akahu_accounts) : ~HasLink(m, id, ledger)}

CarriesToken(m) == \E k \in DOMAIN m : Has(m[k], "seq")

-----------------------------------------------------------------------------
(* C1: a link present in the loaded mapping is present, for the same entry *)
(* and with the same target account, in every mapping the run holds after  *)
(* loading and in the document on disk, whether the run saves or fails.    *)
C1_LinksPreserved ==
    \A k \in DOMAIN LoadedMapping : \A ledger \in Ledgers :
        Has(LoadedMapping[k], AccountIdKey(ledger)) =>
            /\ \A doc \in disk :
                  /\ HasLink(doc.mapping, k, ledger)
                  /\ doc.mapping[k][AccountIdKey(ledger)]
                        = LoadedMapping[k][AccountIdKey(ledger)]
            /\ disk # {}
            /\ pc \in AfterLoad =>
                  /\ HasLink(CurrentMapping, k, ledger)
                  /\ CurrentMapping[k][AccountIdKey(ledger)]
                        = LoadedMapping[k][AccountIdKey(ledger)]

\* a run that saved, after match decisions, while a linked account was in the
\* previous source snapshot and not in the new one
C1_Witness ==
    /\ pc = "done"
    /\ calls # <<>>
    /\ \E k \in DOMAIN LoadedMapping :
          /\ Has(LoadedMapping[k], "ynab_account_id")
          /\ k \in Ids(existing_akahu_accounts)
          /\ k \notin Ids(latest_akahu_accounts)
    /\ \E i \in DOMAIN calls : \E id \in DOMAIN calls[i].answers :
          calls[i].answers[id] = "never"

-----------------------------------------------------------------------------
(* C2 as claimed: a pair skipped by the previous completed run is asked     *)
(* about again by the next completed run whenever its ledger is enabled and *)
(* the account is in the new source snapshot, also with unchanged snapshots *)
C2_SkippedAlwaysReoffered ==
    pc = "done" =>
        \A p \in prevSkipped :
            (Enabled(p[2]) /\ p[1] \in Ids(latest_akahu_accounts))
                => p \in AskedPairs(calls)

(* C2 as amended: such a pair is asked about again exactly when the change  *)
(* detector reports a change for at least one provider.                     *)
C2_SkippedReofferedOnChange ==
    pc = "done" =>
        \A p \in prevSkipped :
            (Enabled(p[2]) /\ p[1] \in Ids(latest_akahu_accounts))
                => (p \in AskedPairs(calls) <=> AnyProviderChanged)

C2_Witness ==
    /\ pc = "done"
    /\ \E p \in prevSkipped :
          /\ Enabled(p[2])
          /\ p[1] \in Ids(latest_akahu_accounts)
          /\ p \in AskedPairs(calls)

-----------------------------------------------------------------------------
(* C3: at the end of a run, if no provider's snapshot differs from the      *)
(* persisted one then match_accounts was not called, no question was asked  *)
(* and the saved mapping is the one merge returned; otherwise it was called *)
(* once per enabled ledger, ynab before actual, and for no disabled ledger. *)
ExpectedCalls ==
    (IF SYNC_TO_YNAB THEN <<"ynab">> ELSE <<>>) \o (IF SYNC_TO_AB THEN <<"actual">> ELSE <<>>)

C3_MatcherGatedByChange ==
    pc \in {"save", "done"} =>
        IF AnyProviderChanged
        THEN [i \in DOMAIN calls |-> calls[i].ledger] = ExpectedCalls
        ELSE /\ calls = <<>>
             /\ new_mapping = existing_mapping
             /\ pc = "done" => \A doc \in disk : doc.mapping = existing_mapping

\* an unattended re-run: nothing changed although accounts are still unmapped
C3_Witness ==
    /\ pc = "done"
    /\ ~AnyProviderChanged
    /\ SYNC_TO_YNAB
    /\ LackingLink(new_mapping, "ynab") # {}
    /\ ynab_accounts # EmptyMap

-----------------------------------------------------------------------------
(* C4: after the comparison step each flag says "unchanged" exactly when    *)
(* the provider's two snapshots have the same ids and agree on name,        *)
(* balance and type of every id; equal snapshots are always unchanged.      *)
C4_ChangeDetection ==
    pc \in {"match_ynab", "match_actual", "save", "done"} =>
        /\ accounts_match[1]
              <=> ~Differ(AsMap(existing_akahu_accounts), AsMap(latest_akahu_accounts))
        /\ accounts_match[2] <=> ~Differ(existing_actual_accounts, latest_actual_accounts)
        /\ accounts_match[3] <=> ~Differ(existing_ynab_accounts, latest_ynab_accounts)
        /\ existing_akahu_accounts = latest_akahu_accounts => accounts_match[1]
        /\ existing_actual_accounts = latest_actual_accounts => accounts_match[2]
        /\ existing_ynab_accounts = latest_ynab_accounts => accounts_match[3]

\* snapshots that differ only by a token one side has and the other lacks
C4_Witness ==
    /\ pc = "save"
    /\ accounts_match[3]
    /\ existing_ynab_accounts # latest_ynab_accounts
    /\ ~CarriesToken(existing_ynab_accounts)
    /\ CarriesToken(latest_ynab_accounts)

-----------------------------------------------------------------------------
(* C5: a call of match_accounts asks at most as many questions as there are *)
(* source accounts without a link for its ledger, and when every answer is  *)
(* a confirmed target account no source account is left without a link.     *)
C5_MatcherTermination ==
    \A i \in DOMAIN calls :
        /\ Len(calls[i].asked) <= Cardinality(LackingLink(calls[i].before, calls[i].ledger))
        /\ DOMAIN calls[i].answers = Range(calls[i].asked)
        /\ (\A id \in DOMAIN calls[i].answers : calls[i].answers[id] \notin {"skip", "never"})
              => LackingLink(MappingAfterCall(i), calls[i].ledger) = {}

C5_Witness ==
    \E i \in DOMAIN calls :
        /\ Len(calls[i].asked) = 2
        /\ \A id \in DOMAIN calls[i].answers : calls[i].answers[id] \notin {"skip", "never"}

-----------------------------------------------------------------------------
(* C6: the result of merge is a fixed point of merge: applied again to its  *)
(* own mapping with the same snapshots it returns the same keys, the same   *)
(* fields and the same account dictionaries.                                *)
MergeAgain ==
    merge_and_update_mapping(existing_mapping,
                             latest_akahu_accounts, latest_actual_accounts,
                             latest_ynab_accounts,
                             existing_akahu_accounts, existing_actual_accounts,
                             existing_ynab_accounts)

C6_MergeIdempotent ==
    pc = "sort" =>
        /\ DOMAIN MergeAgain.mapping = DOMAIN existing_mapping
        /\ MergeAgain.mapping = existing_mapping
        /\ MergeAgain.akahu_accounts = akahu_accounts
        /\ MergeAgain.actual_accounts = actual_accounts
        /\ MergeAgain.ynab_accounts = ynab_accounts

\* a merge that refreshed a cached name
C6_Witness ==
    /\ pc = "sort"
    /\ existing_mapping # RetrofitBudgetIds(LoadedMapping)
    /\ \E k \in DOMAIN existing_mapping :
          existing_mapping[k].akahu_name # LoadedMapping[k].akahu_name

-----------------------------------------------------------------------------
(* C7: once loaded, every entry with an account id for a ledger has a       *)
(* budget id for it, in every mapping main() holds and in every saved       *)
(* document; a loaded entry keeps the budget id it had and otherwise gets   *)
(* the configured one.                                                      *)
BudgetComplete(m) ==
    \A k \in DOMAIN m : \A ledger \in Ledgers :
        Has(m[k], AccountIdKey(ledger)) => Has(m[k], BudgetIdKey(ledger))

C7_BudgetIdWithAccountId ==
    /\ pc \in AfterLoad =>
          /\ BudgetComplete(existing_mapping)
          /\ BudgetComplete(CurrentMapping)
          /\ \A i \in DOMAIN calls : BudgetComplete(calls[i].before)
          /\ \A k \in DOMAIN LoadedMapping : \A ledger \in Ledgers :
                Has(LoadedMapping[k], AccountIdKey(ledger)) =>
                    /\ HasLink(CurrentMapping, k, ledger)
                    /\ CurrentMapping[k][BudgetIdKey(ledger)] =
                          IF Has(LoadedMapping[k], BudgetIdKey(ledger))
                          THEN LoadedMapping[k][BudgetIdKey(ledger)]
                          ELSE ConfiguredBudget(ledger)
    /\ pc = "done" => \A doc \in disk : BudgetComplete(doc.mapping)

\* a saved run that loaded an entry without a budget id and one with another
\* budget's id, and confirmed a new link
C7_Witness ==
    /\ pc = "done"
    /\ \E k \in DOMAIN LoadedMapping :
          /\ Has(LoadedMapping[k], "ynab_account_id")
          /\ ~Has(LoadedMapping[k], "ynab_budget_id")
          /\ Has(LoadedMapping[k], "actual_budget_id")
          /\ LoadedMapping[k]["actual_budget_id"] # ACTUAL_SYNC_ID
    /\ \E k \in DOMAIN new_mapping : k \notin DOMAIN LoadedMapping /\ HasLink(new_mapping, k, "ynab")

-----------------------------------------------------------------------------
(* C8: the document on disk changes only in the save step, which ends the   *)
(* run; until then, and after any failure, it is the document the run       *)
(* started with; what a completed run leaves is the whole final document;   *)
(* a run that failed is never resumed, only a new run can follow it.        *)
C8_State ==
    /\ saves <= 1
    /\ pc # "done" => (disk = disk0 /\ saves = 0)
    /\ pc = "done" =>
          /\ saves = 1
          /\ disk = {Document(StripAll(akahu_accounts), StripAll(actual_accounts),
                              StripAll(ynab_accounts), StripAll(new_mapping))}
    /\ pc = "failed" <=> failedAt # "none"

C8_Step ==
    /\ disk' # disk => (pc = "save" /\ pc' = "done")
    /\ pc = "failed" => (runs' = runs + 1 /\ pc' \in {"fetch_actual", "failed"})
    /\ pc' = "failed" => disk' = disk

C8_SingleAtomicSave == []C8_State /\ [][C8_Step]_vars

\* a second run that failed in its save step, after matching
C8_Witness ==
    /\ pc = "failed"
    /\ failedAt = "save"
    /\ runs = 2
    /\ disk # {}
    /\ \A doc \in disk : doc.mapping # EmptyMap

-----------------------------------------------------------------------------
(* C9: no record of the document on disk carries the ordering token.        *)
C9_NoTokenPersisted ==
    \A doc \in disk :
        /\ ~CarriesToken(doc.akahu_accounts)
        /\ ~CarriesToken(doc.actual_accounts)
        /\ ~CarriesToken(doc.ynab_accounts)
        /\ ~CarriesToken(doc.mapping)

C9_Witness ==
    /\ pc = "done"
    /\ CarriesToken(akahu_accounts)
    /\ CarriesToken(ynab_accounts)
    /\ new_mapping # EmptyMap

-----------------------------------------------------------------------------
(* C10: the source accounts handed to the matcher and saved are the records *)
(* of the new source snapshot, each id once, in case-insensitive order of   *)
(* name.                                                                    *)
SortedByLowerName(accts) ==
    \A i \in 1..(Len(accts) - 1) : StrLeq(lower(accts[i].name), lower(accts[i + 1].name))

C10_SourceAccountsSorted ==
    /\ pc \in AfterSort =>
          /\ Len(akahu_accounts) = Len(latest_akahu_accounts)
          /\ Range(akahu_accounts) = Range(latest_akahu_accounts)
          /\ Ids(akahu_accounts) = Ids(latest_akahu_accounts)
          /\ SortedByLowerName(akahu_accounts)
    /\ pc = "done" =>
          \A doc \in disk :
              /\ doc.akahu_accounts = StripAll(akahu_accounts)
              /\ SortedByLowerName(doc.akahu_accounts)

\* the sort reordered the snapshot, and one of its accounts has no entry yet
C10_Witness ==
    /\ pc = "done"
    /\ Len(akahu_accounts) = 2
    /\ akahu_accounts # latest_akahu_accounts
    /\ \E id \in Ids(akahu_accounts) : id \notin DOMAIN new_mapping

-----------------------------------------------------------------------------
(* Vocabulary of C11 *)

\* the body carries no cursor.next: the member is missing or null at either
\* level
NoCursorNext(body) ==
    \/ ~Has(body, "cursor")
    \/ body["cursor"] = Null
    \/ ~Has(body["cursor"].fields, "next")
    \/ body["cursor"].fields["next"] = Null

\* a terminal response: zero items or no cursor.next
Terminal(body) == Len(DataFrame(body)) = 0 \/ NoCursorNext(body)

\* the cursor.next of a response that is not terminal
CursorNext(body) == body["cursor"].fields["next"].value

\* the items of the first n responses in the order of arrival
RECURSIVE ItemsUpTo(_)
ItemsUpTo(n) == IF n = 0 THEN <<>> ELSE ItemsUpTo(n - 1) \o DataFrame(received[n])

\* the last request got no response
RequestFailed == Len(sent) = Len(received) + 1

\* the first request carries no cursor, every later one the cursor.next of
\* the response before it
CursorsChained ==
    \A i \in DOMAIN sent :
        IF i = 1 THEN ~Has(sent[i], "cursor")
        ELSE /\ ~Terminal(received[i - 1])
             /\ Has(sent[i], "cursor")
             /\ sent[i]["cursor"] = CursorNext(received[i - 1])

\* after a terminal response nothing is left but to return, after any other
\* the call goes on
StopsAtFirstTerminal ==
    (received # <<>> /\ ~RequestFailed /\ fpc # "assemble") =>
        IF Terminal(received[Len(received)])
        THEN fpc = "returned" \/ (fpc = "loop" /\ next_cursor = Null)
        ELSE fpc = "loop" /\ next_cursor # Null

\* the call returns every page received, in order
ReturnsAllPages ==
    fpc = "returned" =>
        /\ outcome.kind = "return"
        /\ outcome.value = Frame(ItemsUpTo(Len(received)))
        /\ ~RequestFailed

\* the call raises exactly when a request failed, and then returns nothing
FailureRaises ==
    /\ RequestFailed => (fpc = "raised" /\ outcome.kind = "raise")
    /\ fpc = "raised" => RequestFailed

-----------------------------------------------------------------------------
(* C11: get_all_akahu sends each response's cursor.next as the cursor of    *)
(* the next request, stops after the first response with zero items or no   *)
(* cursor.next, then returns the items of every page in fetch order, and    *)
(* raises instead of returning exactly when a request failed.               *)

C11_PaginatedFetch ==
    /\ CursorsChained
    /\ StopsAtFirstTerminal
    /\ ReturnsAllPages
    /\ FailureRaises

\* a body of the documented shape: the cursor, when present, is an object,
\* and its next is not the string get_all_akahu starts from
PlainBody(body) ==
    Has(body, "cursor") =>
        /\ body["cursor"] # Null
        /\ Has(body["cursor"].fields, "next") => body["cursor"].fields["next"] # FirstTime

\* C11 holds of every call in which all bodies received are plain
C11_OnPlainBodies ==
    (\A i \in DOMAIN received : PlainBody(received[i])) => C11_PaginatedFetch

\* three plain pages were fetched and returned in order
C11_PlainWitness ==
    /\ fpc = "returned"
    /\ Len(received) = 3
    /\ \A i \in DOMAIN received : PlainBody(received[i])
    /\ outcome.value = Frame(<<"t1", "t2", "t1", "t2">>)

====
